---- MODULE Spec2Model ----
(***************************************************************************)
(* A model of smooai_file: the Content-Disposition parser, the detectors,  *)
(* the metadata cascade File._build_metadata, the five factories and the   *)
(* File operations over a small disk and a small object store.             *)
(*                                                                         *)
(* Text is a sequence of tokens: the characters the code inspects ("/",    *)
(* ".", ";", "=", the double quote, the space, ...) are one token each, a  *)
(* run of other characters ("report", "UTF-8", "%20") is one token.  An    *)
(* optional value (Python's None or a value) is None or Some(v).  Bytes    *)
(* are sequences of byte tokens.                                           *)
(***************************************************************************)
EXTENDS Integers, Sequences, FiniteSets, TLC

VARIABLES
    fs,        \* the disk: absolute path -> content, or NoFile
    s3,        \* object storage: <<bucket, key>> -> stored object, or NoObject
    ents,      \* the File entities the caller holds: slot -> entity, or NoEnt
    last,      \* the most recent call: operation, arguments, outcome
    header,    \* parser development: the Content-Disposition value
    parsed     \* parser development: what parse_content_disposition returned

vars == <<fs, s3, ents, last, header, parsed>>

----------------------------------------------------------------------------
(* Optional values and small helpers                                       *)

None == [is |-> "None"]

Some(x) == [is |-> "Some", v |-> x]

IsNone(o) == o.is = "None"

IsSome(o) == o.is = "Some"

\* Python truthiness of an optional text (token sequence): not None, not ""
Truthy(o) == o.is = "Some" /\ o.v # <<>>

\* Python truthiness of an optional atomic string (a MIME type)
TruthyStr(o) == o.is = "Some" /\ o.v # ""

At(s, i) == IF i \in 1..Len(s) THEN s[i] ELSE ""

MinOf(S) == CHOOSE x \in S : \A y \in S : x <= y

MaxOf(S) == CHOOSE x \in S : \A y \in S : x >= y

QUOTE == "\""

IsSpace(c) == c = " "

\* the first index >= i that holds no whitespace (Len(s)+1 when none): \s*
SkipSpaces(s, i) == MinOf({j \in i..(Len(s) + 1) : ~IsSpace(At(s, j))})

\* str.strip(): whitespace removed at both ends
Strip(s) ==
    LET keep == {i \in 1..Len(s) : ~IsSpace(s[i])}
    IN  IF keep = {} THEN <<>> ELSE SubSeq(s, MinOf(keep), MaxOf(keep))

\* str.strip('"'): double quotes removed at both ends
StripQuotes(s) ==
    LET keep == {i \in 1..Len(s) : s[i] # QUOTE}
    IN  IF keep = {} THEN <<>> ELSE SubSeq(s, MinOf(keep), MaxOf(keep))

\* urllib.parse.unquote on one token: a percent escape becomes its character
PctDecode(c) ==
    CASE c = "%20" -> " "
      [] c = "%2E" -> "."
      [] OTHER -> c

unquote(s) == [i \in 1..Len(s) |-> PctDecode(s[i])]

\* str.rfind of a one-character token: the last index holding c, 0 when none
RFind(s, c) ==
    LET at == {i \in 1..Len(s) : s[i] = c}
    IN  IF at = {} THEN 0 ELSE MaxOf(at)

\* os.path.splitext(p)[1]: from the last dot of the last path segment on,
\* leading dots of the segment not counted; "" when there is none
splitext(p) ==
    LET sepIndex == RFind(p, "/")
        dotIndex == RFind(p, ".")
    IN  IF dotIndex > sepIndex
           /\ \E k \in (sepIndex + 1)..(dotIndex - 1) : p[k] # "."
        THEN SubSeq(p, dotIndex, Len(p))
        ELSE <<>>

\* os.path.basename(p): what follows the last "/"
basename(p) == SubSeq(p, RFind(p, "/") + 1, Len(p))

----------------------------------------------------------------------------
(* _content_disposition.py                                                 *)

\* filename\*\s*=\s*(?:UTF-8|utf-8)?'' tried at index i: the index where the
\* value group starts, 0 when the prefix does not match there
StarPrefix(h, i) ==
    LET j == SkipSpaces(h, i + 2)
        k == SkipSpaces(h, j + 1)
    IN  IF At(h, i) = "filename" /\ At(h, i + 1) = "*" /\ At(h, j) = "="
        THEN IF At(h, k) \in {"UTF-8", "utf-8"} /\ At(h, k + 1) = "''"
             THEN k + 2
             ELSE IF At(h, k) = "''" THEN k + 1 ELSE 0
        ELSE 0

\* re.search(r"filename\*\s*=\s*(?:UTF-8|utf-8)?''(.+?)(?:;|$)", h): group 1
\* of the leftmost match (a lazy run of at least one token, up to the first
\* ";" that follows it, or to the end), or None
MatchStar(h) ==
    LET starts == {i \in 1..Len(h) : StarPrefix(h, i) # 0 /\ StarPrefix(h, i) <= Len(h)}
    IN  IF starts = {} THEN None
        ELSE LET p == StarPrefix(h, MinOf(starts))
                 e == MinOf({x \in p..Len(h) : x = Len(h) \/ h[x + 1] = ";"})
             IN  Some(SubSeq(h, p, e))

\* [^";]
PlainChar(c) == c # "" /\ c # QUOTE /\ c # ";"

\* filename\s*=\s*"?([^";]+) tried at index i (IGNORECASE): the index where
\* the value group starts, 0 when it does not match there.  \s* is greedy
\* and gives whitespace back to the group when nothing else can start it.
PlainGroupStart(h, i) ==
    LET j == SkipSpaces(h, i + 1)
        k == SkipSpaces(h, j + 1)
    IN  IF At(h, i) \in {"filename", "FILENAME", "Filename"} /\ At(h, j) = "="
        THEN IF At(h, k) = QUOTE /\ PlainChar(At(h, k + 1)) THEN k + 1
             ELSE IF PlainChar(At(h, k)) THEN k
             ELSE IF k - 1 >= j + 1 THEN k - 1
             ELSE 0
        ELSE 0

\* re.search(r'filename\s*=\s*"?([^";]+)"?', h, re.IGNORECASE): group 1 of
\* the leftmost match, or None
MatchPlain(h) ==
    LET starts == {i \in 1..Len(h) : PlainGroupStart(h, i) # 0}
    IN  IF starts = {} THEN None
        ELSE LET p == PlainGroupStart(h, MinOf(starts))
                 e == MaxOf({x \in p..Len(h) : \A y \in p..x : PlainChar(h[y])})
             IN  Some(SubSeq(h, p, e))

\* the filename the two searches give: the extended form unquoted and
\* stripped when it matched, else the plain form stripped of whitespace and
\* of quotes, else None
FilenameOf(star, plain) ==
    IF IsSome(star) THEN Some(unquote(Strip(star.v)))
    ELSE IF IsSome(plain) THEN Some(StripQuotes(Strip(plain.v)))
    ELSE None

\* os.path.splitext(filename)[1] or None
ExtOf(ext) == IF ext # <<>> THEN Some(ext) ELSE None

\* the returned pair for an extracted filename
WithExtension(filename) ==
    IF IsNone(filename) THEN [filename |-> None, ext |-> None]
    ELSE [filename |-> filename, ext |-> ExtOf(splitext(filename.v))]

\* parse_content_disposition(header_value) -> (filename, extension)
parse_content_disposition(h) ==
    IF h = <<>> THEN [filename |-> None, ext |-> None]
    ELSE WithExtension(FilenameOf(MatchStar(h), MatchPlain(h)))

----------------------------------------------------------------------------
(* _detection.py: the two detector services                                *)

\* detect_from_bytes(data) -> (mime_type, extension): puremagic's answer for
\* the leading bytes.  "P" opens a PNG signature, "D" a PDF signature, "Z" a
\* signature puremagic knows by extension only; any other byte matches none.
detect_from_bytes(data) ==
    IF data = <<>> THEN [mime |-> None, ext |-> None]
    ELSE CASE data[1] = "P" -> [mime |-> Some("image/png"), ext |-> Some(<<".", "png">>)]
           [] data[1] = "D" -> [mime |-> Some("application/pdf"), ext |-> Some(<<".", "pdf">>)]
           [] data[1] = "Z" -> [mime |-> None, ext |-> Some(<<".", "z">>)]
           [] OTHER -> [mime |-> None, ext |-> None]

\* detect_from_extension(filename)[0]: mimetypes.guess_type on the name's
\* extension, letter case ignored
detect_from_extension(filename) ==
    IF filename = <<>> THEN None
    ELSE LET ext == splitext(filename)
         IN  IF Len(ext) # 2 THEN None
             ELSE CASE ext[2] \in {"txt", "TXT"} -> Some("text/plain")
                    [] ext[2] \in {"png", "PNG"} -> Some("image/png")
                    [] ext[2] \in {"pdf", "PDF"} -> Some("application/pdf")
                    [] OTHER -> None

\* extension_from_mime(mime_type): mimetypes.guess_extension, leading dot kept
extension_from_mime(mime_type) ==
    CASE mime_type = "text/plain" -> Some(<<".", "txt">>)
      [] mime_type = "image/png" -> Some(<<".", "png">>)
      [] mime_type = "application/pdf" -> Some(<<".", "pdf">>)
      [] mime_type = "application/octet-stream" -> Some(<<".", "bin">>)
      [] OTHER -> None

----------------------------------------------------------------------------
(* _file.py: module-private helpers                                        *)

DigitTokens == <<"0", "1", "2", "3", "4", "5", "6", "7", "8", "9">>

IsDigit(c) == \E i \in 1..Len(DigitTokens) : DigitTokens[i] = c

DigitVal(c) == (CHOOSE i \in 1..Len(DigitTokens) : DigitTokens[i] = c) - 1

RECURSIVE DigitsValue(_)
DigitsValue(d) ==
    IF d = <<>> THEN 0
    ELSE 10 * DigitsValue(SubSeq(d, 1, Len(d) - 1)) + DigitVal(d[Len(d)])

\* int(text): surrounding whitespace dropped, an optional sign, then digits;
\* None stands for ValueError
ParseInt(s) ==
    LET t == Strip(s)
        signed == At(t, 1) \in {"-", "+"}
        d == IF signed THEN Tail(t) ELSE t
    IN  IF d # <<>> /\ \A i \in 1..Len(d) : IsDigit(d[i])
        THEN Some(IF At(t, 1) = "-" THEN 0 - DigitsValue(d) ELSE DigitsValue(d))
        ELSE None

\* _parse_http_date(date_str): the instant an RFC 7231 date names; None stands
\* for the exception email.utils raises on anything else
parse_http_date(date_str) ==
    CASE date_str = "Wed, 21 Oct 2015 07:28:00 GMT" -> Some(2015)
      [] date_str = "Fri, 01 Jan 2021 00:00:00 GMT" -> Some(2021)
      [] OTHER -> None

\* urlparse(url).path: from the first "/" after the authority to the query
\* or fragment
UrlPath(url) ==
    LET slashes == {i \in 1..Len(url) : url[i] = "/"}
        stops == {i \in 1..Len(url) : url[i] \in {"?", "#"}}
        first == IF slashes = {} THEN Len(url) + 1 ELSE MinOf(slashes)
        stop == IF stops = {} THEN Len(url) + 1 ELSE MinOf(stops)
    IN  IF first < stop THEN SubSeq(url, first, stop - 1) ELSE <<>>

\* _filename_from_url(url): the last path segment, or None
filename_from_url(url) ==
    IF ~Truthy(url) THEN None
    ELSE LET b == basename(UrlPath(url.v))
         IN  IF b # <<>> /\ b # <<"/">> THEN Some(b) ELSE None

\* a parser that splits at the last "/" instead of the first
parse_s3_url_last_slash(url) ==
    LET rest == IF url # <<>> /\ url[1] = "s3://" THEN Tail(url) ELSE url
        slashes == {i \in 1..Len(rest) : rest[i] = "/"}
    IN  IF slashes = {} THEN None
        ELSE Some([bucket |-> SubSeq(rest, 1, MaxOf(slashes) - 1),
                   key |-> SubSeq(rest, MaxOf(slashes) + 1, Len(rest))])

\* _parse_s3_url(url) -> (bucket, key): the first "s3://" is dropped wherever
\* it stands, the rest split at its first "/"; None stands for ValueError
parse_s3_url(url) ==
    LET schemes == {i \in 1..Len(url) : url[i] = "s3://"}
        stripped == IF schemes = {} THEN url
                    ELSE SubSeq(url, 1, MinOf(schemes) - 1)
                         \o SubSeq(url, MinOf(schemes) + 1, Len(url))
        slashes == {i \in 1..Len(stripped) : stripped[i] = "/"}
    IN  IF slashes = {} THEN None
        ELSE Some([bucket |-> SubSeq(stripped, 1, MinOf(slashes) - 1),
                   key |-> SubSeq(stripped, MinOf(slashes) + 1, Len(stripped))])

----------------------------------------------------------------------------
(* _file.py: File._build_metadata, the priority cascade                     *)

NoHint ==
    [name |-> None, extension |-> None, mime_type |-> None, size |-> None,
     hash |-> None, last_modified |-> None, created_at |-> None,
     path |-> None, url |-> None, response |-> None]

NoHeaders ==
    [cd |-> None, ct |-> None, cl |-> None, etag |-> None, lm |-> None, cmd5 |-> None]

NoAttrs ==
    [ContentDisposition |-> None, ContentType |-> None, ContentLength |-> None,
     ETag |-> None, LastModified |-> None]

\* hint.get(...) for the nine metadata fields: the seed of the cascade
Seed(hint) ==
    [name |-> hint.name, extension |-> hint.extension, mime_type |-> hint.mime_type,
     size |-> hint.size, hash |-> hint.hash, last_modified |-> hint.last_modified,
     created_at |-> hint.created_at, path |-> hint.path, url |-> hint.url]

\* a disposition step in which a name the hint gave stands against the header
PreferParsed_keep_hint(cd_name, name) ==
    IF name.is = "Some" THEN name
    ELSE IF cd_name.is = "Some" /\ cd_name.v # <<>> THEN cd_name ELSE name

\* "if cd_name: name = cd_name"
PreferParsed(cd_name, name) == IF Truthy(cd_name) THEN cd_name ELSE name

\* the name after the Content-Disposition step of either transport stage
NameFromDisposition(name, cd) ==
    IF Truthy(cd) THEN PreferParsed(parse_content_disposition(cd.v).filename, name)
    ELSE name

\* "if x: field = x" for an optional atomic string
PreferStr(x, prior) == IF TruthyStr(x) THEN x ELSE prior

\* a content-type step in which a MIME type the hint gave stands against the
\* transport
MimeFromTransport_hint_first(mime_type, ct, name) ==
    IF mime_type.is = "Some" /\ mime_type.v # "" THEN mime_type
    ELSE IF ct.is = "Some" /\ ct.v # "" THEN ct
    ELSE IF name.is = "Some" /\ name.v # <<>>
         THEN IF detect_from_extension(name.v).is = "Some"
              THEN detect_from_extension(name.v) ELSE mime_type
         ELSE mime_type

\* the MIME type after the content-type step of either transport stage
MimeFromTransport(mime_type, ct, name) ==
    IF TruthyStr(ct) THEN ct
    ELSE IF Truthy(name) THEN PreferStr(detect_from_extension(name.v), mime_type)
         ELSE mime_type

\* "if name is None: name = _filename_from_url(url)"
NameOrUrl(name, url) == IF IsNone(name) THEN filename_from_url(url) ELSE name

\* a resolved value replaces the prior one, a failure (None) leaves it
Resolved(x, prior) == IF IsSome(x) THEN x ELSE prior

\* an HTTP stage in which a size the hint gave stands against content-length
HttpFields_hint_size(m, h, name) ==
    [m EXCEPT
        !.name = name,
        !.size = IF IsNone(@) /\ IsSome(h.cl) THEN Resolved(ParseInt(h.cl.v), @) ELSE @,
        !.mime_type = MimeFromTransport(@, h.ct, name),
        !.hash = IF Truthy(h.etag) THEN Some(StripQuotes(h.etag.v))
                 ELSE IF Truthy(h.cmd5) THEN h.cmd5 ELSE @,
        !.last_modified = IF TruthyStr(h.lm) THEN Resolved(parse_http_date(h.lm.v), @)
                          ELSE @]

\* the fields the HTTP stage sets from headers h, name being the name the
\* disposition and URL steps gave
HttpFields(m, h, name) ==
    [m EXCEPT
        !.name = name,
        !.size = IF IsSome(h.cl) THEN Resolved(ParseInt(h.cl.v), @) ELSE @,
        !.mime_type = MimeFromTransport(@, h.ct, name),
        !.hash = IF Truthy(h.etag) THEN Some(StripQuotes(h.etag.v))
                 ELSE IF Truthy(h.cmd5) THEN h.cmd5 ELSE @,
        !.last_modified = IF TruthyStr(h.lm) THEN Resolved(parse_http_date(h.lm.v), @)
                          ELSE @]

\* the HTTP response headers stage; headers is None when there is no response
HttpStage(m, headers) ==
    IF IsNone(headers) THEN m
    ELSE HttpFields(m, headers.v,
                    NameOrUrl(NameFromDisposition(m.name, headers.v.cd), m.url))

\* int(s3_cl): an int as it is, a text parsed; None stands for ValueError
IntOfAttr(a) == IF a.kind = "int" THEN Some(a.n) ELSE ParseInt(a.s)

\* the fields the S3 stage sets from attributes a, name being the name the
\* disposition step gave
S3Fields(m, a, name) ==
    [m EXCEPT
        !.name = name,
        !.size = IF IsSome(a.ContentLength) THEN Resolved(IntOfAttr(a.ContentLength.v), @)
                 ELSE @,
        !.mime_type = MimeFromTransport(@, a.ContentType, name),
        !.hash = IF Truthy(a.ETag) THEN Some(StripQuotes(a.ETag.v)) ELSE @,
        !.last_modified =
            IF IsNone(a.LastModified) THEN @
            ELSE IF a.LastModified.v.kind = "datetime" THEN Some(a.LastModified.v.t)
            ELSE IF a.LastModified.v.s # "" THEN Resolved(parse_http_date(a.LastModified.v.s), @)
            ELSE @]

\* the S3 response stage; attrs is None when there is no S3 response
S3Stage(m, attrs) ==
    IF IsNone(attrs) THEN m
    ELSE S3Fields(m, attrs.v, NameFromDisposition(m.name, attrs.v.ContentDisposition))

\* a filesystem stage that clears the fields a failed stat should have left
StatFields_cleared(m, st) ==
    IF st.ok
    THEN [m EXCEPT !.size = Some(st.st_size),
                   !.last_modified = Some(st.st_mtime),
                   !.created_at = Some(st.st_ctime)]
    ELSE [m EXCEPT !.size = None, !.last_modified = None, !.created_at = None]

\* the size and the times os.stat gave; a failing stat leaves them
StatFields(m, st) ==
    IF st.ok
    THEN [m EXCEPT !.size = Some(st.st_size),
                   !.last_modified = Some(st.st_mtime),
                   !.created_at = Some(st.st_ctime)]
    ELSE m

\* "if detected: mime_type = detected"
WithMime(m, detected) ==
    IF TruthyStr(detected) THEN [m EXCEPT !.mime_type = detected] ELSE m

\* the filesystem stage; st is what os.stat(file_path) gives (ok = FALSE
\* stands for OSError)
StatStage(m, file_source, st) ==
    IF file_source = "File" /\ Truthy(m.path)
    THEN WithMime(StatFields(m, st), detect_from_extension(m.path.v))
    ELSE m

\* name-based MIME fallback
NameMimeFallback(m) ==
    IF ~TruthyStr(m.mime_type) /\ Truthy(m.name)
    THEN WithMime(m, detect_from_extension(m.name.v))
    ELSE m

\* magic-byte detection that fills the MIME type only when none is set yet
MagicStage_fill_only(m, data) ==
    IF data # <<>>
    THEN [m EXCEPT
            !.mime_type = IF ~TruthyStr(@) /\ TruthyStr(detect_from_bytes(data).mime)
                          THEN detect_from_bytes(data).mime ELSE @,
            !.extension = IF Truthy(detect_from_bytes(data).ext)
                          THEN detect_from_bytes(data).ext ELSE @]
    ELSE m

\* magic-byte detection: the sniffed MIME type and extension overwrite
MagicStage(m, data) ==
    IF data # <<>>
    THEN LET magic == detect_from_bytes(data)
         IN  [m EXCEPT
                !.mime_type = IF TruthyStr(magic.mime) THEN magic.mime ELSE @,
                !.extension = IF Truthy(magic.ext)
                              THEN IF magic.ext.v[1] = "." THEN magic.ext
                                   ELSE Some(<<".">> \o magic.ext.v)
                              ELSE @]
    ELSE m

\* "if ext: extension = ext"
WithExtensionFrom(m, ext) ==
    IF Truthy(ext) THEN [m EXCEPT !.extension = ext] ELSE m

\* extension fallback from MIME
ExtensionFallback(m) ==
    IF ~Truthy(m.extension) /\ TruthyStr(m.mime_type)
    THEN WithExtensionFrom(m, extension_from_mime(m.mime_type.v))
    ELSE m

\* normalise extension: strip leading dot
NormaliseExtension(m) ==
    IF Truthy(m.extension) /\ m.extension.v[1] = "."
    THEN [m EXCEPT !.extension = Some(Tail(m.extension.v))]
    ELSE m

\* File._build_metadata(file_source, metadata_hint, http_response, s3_response,
\* data), with st the answer os.stat gives for the hint's path
BuildMetadata(file_source, hint, http_response, s3_response, data, st) ==
    NormaliseExtension(ExtensionFallback(MagicStage(NameMimeFallback(
        StatStage(
            S3Stage(
                HttpStage(Seed(hint),
                          IF IsNone(http_response) THEN hint.response ELSE http_response),
                s3_response),
            file_source, st)), data)))

----------------------------------------------------------------------------
(* The collaborators: the disk and the object store                        *)

\* the working directory os.path.abspath resolves a relative path against
Cwd == <<"/", "w">>

\* os.path.abspath(p)
abspath(p) == IF At(p, 1) = "/" THEN p ELSE Cwd \o <<"/">> \o p

\* the content of the file at an absolute path, None when there is none
FileAt(disk, p) == IF p \in DOMAIN disk THEN disk[p] ELSE None

\* what the file at path p holds, "" when there is none (open(p, "ab"))
Existing(disk, p) == IF IsSome(FileAt(disk, p)) THEN FileAt(disk, p).v ELSE <<>>

\* os.stat(p): the size is the content's length, the times are the disk's
Stat(disk, p) ==
    IF IsSome(FileAt(disk, p))
    THEN [ok |-> TRUE, st_size |-> Len(FileAt(disk, p).v), st_mtime |-> 2024, st_ctime |-> 2023]
    ELSE [ok |-> FALSE, st_size |-> 0, st_mtime |-> 0, st_ctime |-> 0]

NoStat == [ok |-> FALSE, st_size |-> 0, st_mtime |-> 0, st_ctime |-> 0]

\* open(p, "wb") and write: the file is created or replaced
WriteFile(disk, p, data) == [disk EXCEPT ![p] = Some(data)]

\* a removal that leaves the file in place
RemoveFile_kept(disk, p) == disk

\* os.remove(p)
RemoveFile(disk, p) == [disk EXCEPT ![p] = None]

\* s3.get_object(Bucket, Key): the stored body and attributes, the length and
\* the entity tag as the store computes them; None stands for NoSuchKey
GetObject(store, bucket, key) ==
    IF <<bucket, key>> \in DOMAIN store /\ IsSome(store[<<bucket, key>>])
    THEN LET o == store[<<bucket, key>>].v
         IN  Some([Body |-> Some(o.Body),
                   attrs |-> [ContentDisposition |-> o.ContentDisposition,
                              ContentType |-> o.ContentType,
                              ContentLength |-> Some([kind |-> "int", n |-> Len(o.Body), s |-> <<>>]),
                              ETag |-> Some(<<QUOTE, "etag">> \o o.Body \o <<QUOTE>>),
                              LastModified |-> Some([kind |-> "datetime", t |-> 2022, s |-> ""])]])
    ELSE None

\* the object the store keeps after s3.put_object(Bucket, Key, Body, **extra);
\* an object put without a content type is served as binary/octet-stream
PutObject(store, bucket, key, body, extra) ==
    [store EXCEPT ![<<bucket, key>>] =
        Some([Body |-> body,
              ContentDisposition |-> extra.ContentDisposition,
              ContentType |-> IF IsSome(extra.ContentType) THEN extra.ContentType
                              ELSE Some("binary/octet-stream")])]

\* whether put_object may raise: a ContentLength that is not the length of the
\* body is a request the store may take whole, as the test double does, or
\* refuse
MayRefuse(body, extra) ==
    IsSome(extra.ContentLength) /\ extra.ContentLength.v # Len(body)

----------------------------------------------------------------------------
(* _file.py: the File entity and its factories                             *)

NoEnt == [source |-> "none"]

\* File.__init__(file_source, metadata, data)
NewFile(file_source, metadata, data) ==
    [source |-> file_source, metadata |-> metadata, bytes |-> Some(data), stream |-> None]

Raised(error) == [ok |-> FALSE, error |-> error, file |-> NoEnt]

Returned(file) == [ok |-> TRUE, error |-> "", file |-> file]

\* File.from_bytes(data, metadata_hint)
from_bytes(data, hint) ==
    Returned(NewFile("Bytes",
        BuildMetadata("Bytes", [hint EXCEPT !.size = Some(Len(data))], None, None, data, NoStat),
        data))

\* File.from_file once the content is read: abs_path is the resolved path, data
\* what open(abs_path).read() gave, st what os.stat(abs_path) then gives
from_file_read(abs_path, data, st, hint) ==
    NewFile("File",
        BuildMetadata("File",
            [hint EXCEPT !.path = Some(abs_path), !.name = Some(basename(abs_path))],
            None, None, data, st),
        data)

\* File.from_file(file_path, metadata_hint) on a disk no one else touches
from_file(disk, file_path, hint) ==
    LET abs_path == abspath(file_path)
    IN  IF IsNone(FileAt(disk, abs_path)) THEN Raised("FileNotFoundError")
        ELSE Returned(from_file_read(abs_path, FileAt(disk, abs_path).v,
                                     Stat(disk, abs_path), hint))

\* File.from_url(url, metadata_hint); response is what client.get(url) gave
from_url(url, response, hint) ==
    IF response.status >= 400 THEN Raised("HTTPStatusError")
    ELSE Returned(NewFile("Url",
             BuildMetadata("Url", [hint EXCEPT !.url = Some(url)],
                           Some(response.headers), None, response.content, NoStat),
             response.content))

\* the chunk size of the synchronous read loop
ReadSize == 65536

\* the loop over stream.read(65536) of a file-like object holding rest
RECURSIVE ReadLoop(_)
ReadLoop(rest) ==
    IF rest = <<>> THEN <<>>
    ELSE IF Len(rest) <= ReadSize THEN rest
    ELSE SubSeq(rest, 1, ReadSize) \o ReadLoop(SubSeq(rest, ReadSize + 1, Len(rest)))

\* b"".join(chunks)
RECURSIVE JoinChunks(_)
JoinChunks(chunks) ==
    IF chunks = <<>> THEN <<>> ELSE Head(chunks) \o JoinChunks(Tail(chunks))

\* from_stream that keeps the first chunk only
from_stream_first_chunk(stream, hint) ==
    IF stream.kind \notin {"aiter", "readable"} THEN Raised("TypeError")
    ELSE Returned(NewFile("Stream",
             BuildMetadata("Stream",
                 [hint EXCEPT !.size = Some(Len(IF stream.chunks = <<>> THEN <<>>
                                                ELSE Head(stream.chunks)))],
                 None, None, IF stream.chunks = <<>> THEN <<>> ELSE Head(stream.chunks),
                 NoStat),
             IF stream.chunks = <<>> THEN <<>> ELSE Head(stream.chunks)))

\* File.from_stream(stream, metadata_hint): an async iterator of chunks, a
\* file-like object with read(), or neither
from_stream(stream, hint) ==
    IF stream.kind \notin {"aiter", "readable"} THEN Raised("TypeError")
    ELSE LET data == IF stream.kind = "aiter" THEN JoinChunks(stream.chunks)
                     ELSE ReadLoop(JoinChunks(stream.chunks))
         IN  Returned(NewFile("Stream",
                 BuildMetadata("Stream", [hint EXCEPT !.size = Some(Len(data))],
                               None, None, data, NoStat),
                 data))

\* the locator from_s3 stores: f"s3://{bucket}/{key}"
S3Url(bucket, key) == <<"s3://">> \o bucket \o <<"/">> \o key

\* File.from_s3(bucket, key, metadata_hint); response is what get_object gave
\* (None: the call raised)
from_s3(response, bucket, key, hint) ==
    IF IsNone(response) THEN Raised("ClientError")
    ELSE IF IsNone(response.v.Body) THEN Raised("RuntimeError")
    ELSE Returned(NewFile("S3",
             BuildMetadata("S3",
                 [hint EXCEPT !.url = Some(S3Url(bucket, key)), !.name = Some(basename(key))],
                 None, Some(response.v.attrs), response.v.Body.v, NoStat),
             response.v.Body.v))

\* File.read(): the buffered bytes; a pending stream would be drained first
read(f) ==
    IF IsSome(f.bytes) THEN f.bytes.v
    ELSE IF IsSome(f.stream) THEN JoinChunks(f.stream.v)
    ELSE <<>>

\* File._refresh() for a local file: a fresh from_file on the stored path
refresh(disk, f) == from_file(disk, f.metadata.path.v, NoHint)

----------------------------------------------------------------------------
(* _file.py: the operations, one action per call                           *)

\* what a call was given besides the payload: a factory's hint and the
\* headers or attributes the transport answered with, the attributes an
\* upload passed to put_object, the path given to from_file, the bucket and
\* key of an S3 call and the keywords given to set_metadata
NoInput ==
    [hint |-> NoHint, headers |-> None, attrs |-> None, path |-> <<>>,
     bucket |-> <<>>, key |-> <<>>, kwargs |-> <<>>]

\* the record of a call: the operation, the entity slot it was called on, the
\* slot that received a returned entity (0: none), whether it returned and
\* the error it raised otherwise, and its arguments or result (data: the
\* payload a factory was given or the bytes read() returned, and for append,
\* prepend and truncate what the backing file held when the call began;
\* content: what to append or prepend, n: a size, text: a path or a locator,
\* input: a factory's other inputs)
Call(op, e, r, ok, data, content, n, text) ==
    [op |-> op, e |-> e, r |-> r, ok |-> ok, error |-> "", data |-> data,
     content |-> content, n |-> n, text |-> text, input |-> NoInput]

\* the call raised
Failed(call, error) == [call EXCEPT !.ok = FALSE, !.error = error]

NoContent == [kind |-> "bytes", v |-> <<>>]

\* str.encode("utf-8") of one character
Utf8(c) == IF c = "e-acute" THEN <<"xC3", "xA9">> ELSE <<c>>

RECURSIVE EncodeUtf8(_)
EncodeUtf8(chars) ==
    IF chars = <<>> THEN <<>> ELSE Utf8(Head(chars)) \o EncodeUtf8(Tail(chars))

\* content.encode("utf-8") if isinstance(content, str) else content
RawContent(content) ==
    IF content.kind = "str" THEN EncodeUtf8(content.v) ELSE content.v

\* a guard that looks at the path only, not at the source tag
IsLocalFile_path_only(f) == Truthy(f.metadata.path)

\* the guard of append, prepend and truncate
IsLocalFile(f) == f.source = "File" /\ Truthy(f.metadata.path)

\* a factory's outcome lands in slot e; a raising factory leaves the slot
Construct(op, e, res, data, input) ==
    /\ ents' = IF res.ok THEN [ents EXCEPT ![e] = res.file] ELSE ents
    /\ last' = [Call(op, e, IF res.ok THEN e ELSE 0, res.ok, data, NoContent, 0, <<>>)
                  EXCEPT !.error = res.error, !.input = input]
    /\ UNCHANGED <<fs, s3, header, parsed>>

CallFromBytes(e, data, hint) ==
    Construct("from_bytes", e, from_bytes(data, hint), data, [NoInput EXCEPT !.hint = hint])

CallFromFile(e, file_path, hint) ==
    Construct("from_file", e, from_file(fs, file_path, hint),
              Existing(fs, abspath(file_path)),
              [NoInput EXCEPT !.hint = hint, !.path = file_path])

\* File.from_file when another process removes the file after the content
\* was read and before os.stat runs: the stat fails
CallFromFileRaced(e, file_path, hint) ==
    /\ IsSome(FileAt(fs, abspath(file_path)))
    /\ ents' = [ents EXCEPT ![e] = from_file_read(abspath(file_path),
                                       FileAt(fs, abspath(file_path)).v, NoStat, hint)]
    /\ fs' = RemoveFile(fs, abspath(file_path))
    /\ last' = [Call("from_file", e, e, TRUE, FileAt(fs, abspath(file_path)).v,
                      NoContent, 0, <<"stat failed">>)
                  EXCEPT !.input = [NoInput EXCEPT !.hint = hint, !.path = file_path]]
    /\ UNCHANGED <<s3, header, parsed>>

CallFromUrl(e, url, response, hint) ==
    Construct("from_url", e, from_url(url, response, hint), response.content,
              [NoInput EXCEPT !.hint = [hint EXCEPT !.url = Some(url)],
                              !.headers = Some(response.headers)])

CallFromStream(e, stream, hint) ==
    Construct("from_stream", e, from_stream(stream, hint), JoinChunks(stream.chunks),
              [NoInput EXCEPT !.hint = hint])

CallFromS3(e, response, bucket, key, hint) ==
    Construct("from_s3", e, from_s3(response, bucket, key, hint),
              IF IsSome(response) /\ IsSome(response.v.Body) THEN response.v.Body.v ELSE <<>>,
              [NoInput EXCEPT !.hint = hint,
                              !.attrs = IF IsSome(response) THEN Some(response.v.attrs) ELSE None,
                              !.bucket = bucket, !.key = key])

\* await file.read()
Read(e) ==
    /\ ents[e] # NoEnt
    /\ ents' = IF IsNone(ents[e].bytes) /\ IsSome(ents[e].stream)
               THEN [ents EXCEPT ![e].bytes = Some(read(ents[e]))]
               ELSE ents
    /\ last' = Call("read", e, 0, TRUE, read(ents[e]), NoContent, 0, <<>>)
    /\ UNCHANGED <<fs, s3, header, parsed>>

\* a set_metadata on a Metadata record that every entity built from the same
\* path holds in common
SetMetadata_shared(e, kwargs) ==
    /\ ents[e] # NoEnt
    /\ ents' = [x \in DOMAIN ents |->
                   IF ents[x] # NoEnt /\ ents[x].metadata.path = ents[e].metadata.path
                   THEN [ents[x] EXCEPT !.metadata =
                            [k \in DOMAIN @ |-> IF k \in DOMAIN kwargs THEN kwargs[k] ELSE @[k]]]
                   ELSE ents[x]]
    /\ last' = [Call("set_metadata", e, 0, TRUE, <<>>, NoContent, 0, <<>>)
                  EXCEPT !.input.kwargs = kwargs]
    /\ UNCHANGED <<fs, s3, header, parsed>>

\* "if hasattr(self._metadata, k): setattr(self._metadata, k, v)" for every
\* keyword. hasattr holds for the nine fields and for the attributes every
\* object has, of which two are modelled: "__class__", whose setattr raises
\* TypeError when the value is not a class, and "__dict__", whose setattr
\* replaces the instance's fields, a field the new dict lacks reading its class
\* default None. A keyword set holds at most one of the two, and nothing else
\* with it, so the order of the keywords does not matter.
set_metadata(metadata, kwargs) ==
    IF "__class__" \in DOMAIN kwargs
    THEN [ok |-> FALSE, metadata |-> metadata]
    ELSE IF "__dict__" \in DOMAIN kwargs
    THEN [ok |-> TRUE,
          metadata |-> [k \in DOMAIN metadata |->
                           IF k \in DOMAIN kwargs["__dict__"] THEN kwargs["__dict__"][k]
                           ELSE None]]
    ELSE [ok |-> TRUE,
          metadata |-> [k \in DOMAIN metadata |->
                           IF k \in DOMAIN kwargs THEN kwargs[k] ELSE metadata[k]]]

\* await file.set_metadata(**kwargs)
SetMetadata(e, kwargs) ==
    /\ ents[e] # NoEnt
    /\ ents' = [ents EXCEPT ![e].metadata = set_metadata(@, kwargs).metadata]
    /\ last' = [Call("set_metadata", e, 0, set_metadata(ents[e].metadata, kwargs).ok,
                      <<>>, NoContent, 0, <<>>)
                  EXCEPT !.error = IF set_metadata(ents[e].metadata, kwargs).ok THEN ""
                                   ELSE "TypeError",
                         !.input = [NoInput EXCEPT !.kwargs = kwargs]]
    /\ UNCHANGED <<fs, s3, header, parsed>>

\* a save that hands the original's metadata to the new entity
Save_copying(e, destination_path, r) ==
    /\ ents[e] # NoEnt /\ r # e
    /\ fs' = WriteFile(fs, abspath(destination_path), read(ents[e]))
    /\ ents' = [ents EXCEPT ![r] =
                   NewFile("File",
                           [ents[e].metadata EXCEPT !.path = Some(abspath(destination_path))],
                           read(ents[e]))]
    /\ last' = Call("save", e, r, TRUE, read(ents[e]), NoContent, 0, destination_path)
    /\ UNCHANGED <<s3, header, parsed>>

\* await file.save(destination_path): the buffer is written, then a fresh
\* entity is built from the written file; the caller keeps it in slot r
Save(e, destination_path, r) ==
    /\ ents[e] # NoEnt /\ r # e
    /\ LET disk == WriteFile(fs, abspath(destination_path), read(ents[e]))
       IN  /\ fs' = disk
           /\ ents' = [ents EXCEPT ![r] = from_file(disk, destination_path, NoHint).file]
    /\ last' = Call("save", e, r, TRUE, read(ents[e]), NoContent, 0, destination_path)
    /\ UNCHANGED <<s3, header, parsed>>

\* await file.move(destination_path): save, then the original backing path
\* is removed when the entity is a local file; os.remove raises when it is
\* already gone and the new entity is then not returned
Move(e, destination_path, r) ==
    /\ ents[e] # NoEnt /\ r # e
    /\ LET disk == WriteFile(fs, abspath(destination_path), read(ents[e]))
           new_file == from_file(disk, destination_path, NoHint).file
           local == IsLocalFile(ents[e])
           orig == IF local THEN abspath(ents[e].metadata.path.v) ELSE <<>>
           gone == local /\ IsNone(FileAt(disk, orig))
       IN  /\ fs' = IF local /\ ~gone THEN RemoveFile(disk, orig) ELSE disk
           /\ ents' = IF gone THEN ents ELSE [ents EXCEPT ![r] = new_file]
           /\ last' = IF gone
                       THEN Failed(Call("move", e, 0, FALSE, read(ents[e]), NoContent, 0,
                                        destination_path), "FileNotFoundError")
                       ELSE Call("move", e, r, TRUE, read(ents[e]), NoContent, 0,
                                 destination_path)
    /\ UNCHANGED <<s3, header, parsed>>

\* a delete that removes the path of an entity of any source
Delete_ungated(e) ==
    /\ ents[e] # NoEnt
    /\ fs' = IF Truthy(ents[e].metadata.path)
             THEN [fs EXCEPT ![abspath(ents[e].metadata.path.v)] = None] ELSE fs
    /\ last' = Call("delete", e, 0, TRUE, <<>>, NoContent, 0, <<>>)
    /\ UNCHANGED <<ents, s3, header, parsed>>

\* await file.delete()
Delete(e) ==
    /\ ents[e] # NoEnt
    /\ LET local == IsLocalFile(ents[e])
           orig == IF local THEN abspath(ents[e].metadata.path.v) ELSE <<>>
           gone == local /\ IsNone(FileAt(fs, orig))
       IN  /\ fs' = IF local /\ ~gone THEN RemoveFile(fs, orig) ELSE fs
           /\ last' = IF gone
                       THEN Failed(Call("delete", e, 0, FALSE, <<>>, NoContent, 0, <<>>),
                                   "FileNotFoundError")
                       ELSE Call("delete", e, 0, TRUE, <<>>, NoContent, 0, <<>>)
    /\ UNCHANGED <<ents, s3, header, parsed>>

\* a refresh that rebuilds the entity from the bytes it read back
Refreshed_as_bytes(e, disk) ==
    [ents EXCEPT ![e] = from_bytes(Existing(disk, abspath(ents[e].metadata.path.v)),
                                   NoHint).file]

\* a refresh that assigns the fresh fields one by one and keeps the name
Refreshed_keeping_name(e, disk) ==
    [ents EXCEPT ![e] = [refresh(disk, ents[e]).file
                            EXCEPT !.metadata.name = ents[e].metadata.name]]

\* append, prepend and truncate once the file is rewritten: the refresh
\* replaces the entity's state
Refreshed(e, disk) == [ents EXCEPT ![e] = refresh(disk, ents[e]).file]

\* append that opens the file with "wb": the new bytes replace the content
append_write_replacing(disk, p, content) == WriteFile(disk, p, RawContent(content))

\* the disk after append's write: open(path, "ab"), write(raw)
append_write(disk, p, content) ==
    WriteFile(disk, p, Existing(disk, p) \o RawContent(content))

\* await file.append(content)
AppendContent(e, content) ==
    /\ ents[e] # NoEnt
    /\ IF ~IsLocalFile(ents[e])
       THEN /\ last' = Failed(Call("append", e, 0, FALSE, <<>>, content, 0, <<>>),
                               "Cannot append to non-file source")
            /\ UNCHANGED <<fs, ents>>
       ELSE LET p == abspath(ents[e].metadata.path.v)
                disk == append_write(fs, p, content)
            IN  /\ fs' = disk
                /\ ents' = Refreshed(e, disk)
                /\ last' = Call("append", e, 0, TRUE, Existing(fs, p), content, 0, p)
    /\ UNCHANGED <<s3, header, parsed>>

\* file.append(content) when another process removes the file after the
\* write and before the refresh opens it: from_file raises inside _refresh
\* and _clone is never reached
AppendContentRaced(e, content) ==
    /\ ents[e] # NoEnt /\ IsLocalFile(ents[e])
    /\ fs' = RemoveFile(fs, abspath(ents[e].metadata.path.v))
    /\ last' = Failed(Call("append", e, 0, FALSE,
                            Existing(fs, abspath(ents[e].metadata.path.v)), content, 0,
                            abspath(ents[e].metadata.path.v)),
                       "FileNotFoundError")
    /\ UNCHANGED <<ents, s3, header, parsed>>

\* the disk after prepend's write: open(path, "wb"), write(raw + existing),
\* existing being what self.read() returned
prepend_write(disk, p, existing, content) ==
    WriteFile(disk, p, RawContent(content) \o existing)

\* await file.prepend(content)
PrependContent(e, content) ==
    /\ ents[e] # NoEnt
    /\ IF ~IsLocalFile(ents[e])
       THEN /\ last' = Failed(Call("prepend", e, 0, FALSE, <<>>, content, 0, <<>>),
                               "Cannot prepend to non-file source")
            /\ UNCHANGED <<fs, ents>>
       ELSE LET p == abspath(ents[e].metadata.path.v)
                disk == prepend_write(fs, p, read(ents[e]), content)
            IN  /\ fs' = disk
                /\ ents' = Refreshed(e, disk)
                /\ last' = Call("prepend", e, 0, TRUE, Existing(fs, p), content, 0, p)
    /\ UNCHANGED <<s3, header, parsed>>

\* truncate that cuts one byte too many
truncated_short(data, size) ==
    [i \in 1..(IF size > 0 THEN size - 1 ELSE 0) |-> IF i <= Len(data) THEN data[i] ELSE "x00"]

\* f.truncate(size) on a file holding data: cut, or padded with zero bytes
truncated(data, size) ==
    [i \in 1..size |-> IF i <= Len(data) THEN data[i] ELSE "x00"]

\* await file.truncate(size); open(path, "r+b") raises when the file is gone
Truncate(e, size) ==
    /\ ents[e] # NoEnt
    /\ IF ~IsLocalFile(ents[e])
       THEN /\ last' = Failed(Call("truncate", e, 0, FALSE, <<>>, NoContent, size, <<>>),
                               "Cannot truncate non-file source")
            /\ UNCHANGED <<fs, ents>>
       ELSE LET p == abspath(ents[e].metadata.path.v)
            IN  IF IsNone(FileAt(fs, p))
                THEN /\ last' = Failed(Call("truncate", e, 0, FALSE, <<>>, NoContent, size, p),
                                        "FileNotFoundError")
                     /\ UNCHANGED <<fs, ents>>
                ELSE LET disk == WriteFile(fs, p, truncated(FileAt(fs, p).v, size))
                     IN  /\ fs' = disk
                         /\ ents' = Refreshed(e, disk)
                         /\ last' = Call("truncate", e, 0, TRUE, FileAt(fs, p).v, NoContent,
                                          size, p)
    /\ UNCHANGED <<s3, header, parsed>>

\* the keyword arguments upload_to_s3 passes to put_object besides the body
PutExtra(metadata) ==
    [ContentType |-> IF TruthyStr(metadata.mime_type) THEN metadata.mime_type ELSE None,
     ContentLength |-> metadata.size,
     ContentDisposition |->
         IF Truthy(metadata.name)
         THEN Some(<<"attachment", ";", " ", "filename", "=", QUOTE>>
                   \o metadata.name.v \o <<QUOTE>>)
         ELSE None]

\* the record of an S3 transfer called on slot e
S3Call(op, e, r, ok, bucket, key, text) ==
    [Call(op, e, r, ok, read(ents[e]), NoContent, 0, text)
       EXCEPT !.error = IF ok THEN "" ELSE "ClientError",
              !.input = [NoInput EXCEPT !.attrs = Some(PutExtra(ents[e].metadata)),
                                        !.bucket = bucket, !.key = key]]

\* the store after upload_to_s3 put the buffer of entity f under (bucket, key)
Uploaded(f, bucket, key) == PutObject(s3, bucket, key, read(f), PutExtra(f.metadata))

\* await file.upload_to_s3(bucket, key); accepted is the store's answer when
\* it may refuse the request
UploadToS3(e, bucket, key, accepted) ==
    /\ ents[e] # NoEnt
    /\ accepted \/ MayRefuse(read(ents[e]), PutExtra(ents[e].metadata))
    /\ s3' = IF accepted THEN Uploaded(ents[e], bucket, key) ELSE s3
    /\ last' = S3Call("upload_to_s3", e, 0, accepted, bucket, key, <<>>)
    /\ UNCHANGED <<fs, ents, header, parsed>>

\* File.from_s3(bucket, key) against the store
FromStore(store, bucket, key) == from_s3(GetObject(store, bucket, key), bucket, key, NoHint)

\* a save_to_s3 that also turns the caller's entity into the stored one
SaveToS3_cloning(e, bucket, key, r, accepted) ==
    /\ ents[e] # NoEnt /\ r # e
    /\ accepted \/ MayRefuse(read(ents[e]), PutExtra(ents[e].metadata))
    /\ s3' = IF accepted THEN Uploaded(ents[e], bucket, key) ELSE s3
    /\ ents' = IF accepted
               THEN [x \in DOMAIN ents |->
                        FromStore(Uploaded(ents[e], bucket, key), bucket, key).file]
               ELSE ents
    /\ last' = S3Call("save_to_s3", e, IF accepted THEN r ELSE 0, accepted, bucket, key, <<>>)
    /\ UNCHANGED <<fs, header, parsed>>

\* await file.save_to_s3(bucket, key): upload, then a fresh entity is built
\* from the stored object; the caller keeps it in slot r
SaveToS3(e, bucket, key, r, accepted) ==
    /\ ents[e] # NoEnt /\ r # e
    /\ accepted \/ MayRefuse(read(ents[e]), PutExtra(ents[e].metadata))
    /\ s3' = IF accepted THEN Uploaded(ents[e], bucket, key) ELSE s3
    /\ ents' = IF accepted
               THEN [ents EXCEPT ![r] = FromStore(Uploaded(ents[e], bucket, key), bucket, key).file]
               ELSE ents
    /\ last' = S3Call("save_to_s3", e, IF accepted THEN r ELSE 0, accepted, bucket, key, <<>>)
    /\ UNCHANGED <<fs, header, parsed>>

\* move_to_s3 once the upload went through: the local original is removed
\* (os.remove raises when it is already gone), then the stored object is read
\* back
MovedToS3(e, bucket, key, r, gone) ==
    /\ s3' = Uploaded(ents[e], bucket, key)
    /\ fs' = IF IsLocalFile(ents[e]) /\ ~gone
             THEN RemoveFile(fs, abspath(ents[e].metadata.path.v)) ELSE fs
    /\ ents' = IF gone THEN ents
               ELSE [ents EXCEPT ![r] = FromStore(Uploaded(ents[e], bucket, key), bucket, key).file]
    /\ last' = IF gone
               THEN Failed(S3Call("move_to_s3", e, 0, FALSE, bucket, key, <<>>),
                           "FileNotFoundError")
               ELSE S3Call("move_to_s3", e, r, TRUE, bucket, key, <<>>)

\* await file.move_to_s3(bucket, key)
MoveToS3(e, bucket, key, r, accepted) ==
    /\ ents[e] # NoEnt /\ r # e
    /\ accepted \/ MayRefuse(read(ents[e]), PutExtra(ents[e].metadata))
    /\ IF accepted
       THEN MovedToS3(e, bucket, key, r,
                      IsLocalFile(ents[e])
                      /\ IsNone(FileAt(fs, abspath(ents[e].metadata.path.v))))
       ELSE /\ last' = S3Call("move_to_s3", e, 0, FALSE, bucket, key, <<>>)
            /\ UNCHANGED <<fs, s3, ents>>
    /\ UNCHANGED <<header, parsed>>

\* download_from_s3 once from_s3 returned s3_file: s3_file.save(destination)
Downloaded(e, s3_file, bucket, key, destination_path, r) ==
    /\ fs' = WriteFile(fs, abspath(destination_path), read(s3_file))
    /\ ents' = [ents EXCEPT ![r] =
                   from_file(WriteFile(fs, abspath(destination_path), read(s3_file)),
                             destination_path, NoHint).file]
    /\ last' = [Call("download_from_s3", e, r, TRUE, read(s3_file), NoContent, 0,
                      destination_path)
                  EXCEPT !.input = [NoInput EXCEPT !.bucket = bucket, !.key = key]]

\* await file.download_from_s3(bucket, key, destination_path)
DownloadFromS3(e, bucket, key, destination_path, r) ==
    /\ ents[e] # NoEnt /\ r # e
    /\ IF IsSome(GetObject(s3, bucket, key))
       THEN Downloaded(e, FromStore(s3, bucket, key).file, bucket, key, destination_path, r)
       ELSE /\ last' = [Failed(Call("download_from_s3", e, 0, FALSE, <<>>, NoContent, 0,
                                     destination_path), "ClientError")
                          EXCEPT !.input = [NoInput EXCEPT !.bucket = bucket, !.key = key]]
            /\ UNCHANGED <<fs, ents>>
    /\ UNCHANGED <<s3, header, parsed>>

\* await file.get_signed_url(): the presigned locator of an S3-backed entity
GetSignedUrl(e) ==
    /\ ents[e] # NoEnt
    /\ IF ents[e].source # "S3" \/ ~Truthy(ents[e].metadata.url)
       THEN last' = Failed(Call("get_signed_url", e, 0, FALSE, <<>>, NoContent, 0, <<>>),
                           "Cannot generate signed URL for non-S3 file")
       ELSE LET bk == parse_s3_url(ents[e].metadata.url.v)
            IN  last' = IF IsSome(bk)
                        THEN Call("get_signed_url", e, 0, TRUE, <<>>, NoContent, 0,
                                  <<"https://">> \o bk.v.bucket \o <<"/">> \o bk.v.key
                                      \o <<"?", "X-Amz-Signature">>)
                        ELSE Failed(Call("get_signed_url", e, 0, FALSE, <<>>, NoContent, 0, <<>>),
                                    "ValueError")
    /\ UNCHANGED <<fs, s3, ents, header, parsed>>

\* an exists() that answers from the entity alone and never asks the disk
exists_unasked(disk, f) == TRUE

\* await file.exists(): os.path.exists(path) for a local file, True otherwise
exists(disk, f) ==
    IF IsLocalFile(f) THEN IsSome(FileAt(disk, abspath(f.metadata.path.v))) ELSE TRUE

\* await file.is_readable(): os.access(path, os.R_OK) for a local file, True
\* otherwise; a file on the modelled disk is readable by the caller
is_readable(disk, f) ==
    IF IsLocalFile(f) THEN IsSome(FileAt(disk, abspath(f.metadata.path.v))) ELSE TRUE

\* await file.is_writable(): os.access(path, os.W_OK) for a local file, False
\* otherwise; a file on the modelled disk is writable by the caller
is_writable(disk, f) ==
    IF IsLocalFile(f) THEN IsSome(FileAt(disk, abspath(f.metadata.path.v))) ELSE FALSE

\* another process writes or removes a file
ExternalWrite(p, data) ==
    /\ fs' = WriteFile(fs, p, data)
    /\ last' = Call("external_write", 0, 0, TRUE, data, NoContent, 0, p)
    /\ UNCHANGED <<s3, ents, header, parsed>>

ExternalRemove(p) ==
    /\ IsSome(fs[p])
    /\ fs' = RemoveFile(fs, p)
    /\ last' = Call("external_remove", 0, 0, TRUE, <<>>, NoContent, 0, p)
    /\ UNCHANGED <<s3, ents, header, parsed>>

----------------------------------------------------------------------------
(* The parser development: one header is drawn, then parsed                 *)

\* extended-form parameters: charset label, spacing and value vary
StarCharsets == {<<"UTF-8">>, <<"utf-8">>, <<>>, <<"ISO-8859-1">>, <<"Utf-8">>}

StarValues == {<<"a", "%20", "b", ".", "txt">>, <<"x", ".", "pdf">>, <<" ">>, <<>>}

StarParams ==
    {[text |-> <<"filename", "*">> \o sp \o <<"=">> \o sp \o cs \o <<"''">> \o v,
      charset |-> cs, value |-> v] :
        sp \in {<<>>, <<" ">>}, cs \in StarCharsets, v \in StarValues}

PlainValues == {<<"p", ".", "png">>, <<"q", " ", "r">>, <<" ">>, <<>>}

PlainParams ==
    {[text |-> <<k>> \o sp \o <<"=">> \o sp \o q \o v \o q, charset |-> <<>>, value |-> v] :
        k \in {"filename", "FILENAME"}, sp \in {<<>>, <<" ">>},
        q \in {<<>>, <<QUOTE>>}, v \in PlainValues}

\* a header: an optional disposition type, then the parameters in either
\* order; star and plain keep the parameters it was built from
Headers ==
    LET pre == {<<>>, <<"attachment", ";", " ">>}
        sep == {<<";">>, <<";", " ">>}
    IN  {[text |-> p \o a.text \o s \o b.text, star |-> Some(a), plain |-> Some(b)] :
            p \in pre, s \in sep, a \in StarParams, b \in PlainParams}
        \cup
        {[text |-> p \o b.text \o s \o a.text, star |-> Some(a), plain |-> Some(b)] :
            p \in pre, s \in sep, a \in StarParams, b \in PlainParams}
        \cup {[text |-> p \o a.text, star |-> Some(a), plain |-> None] :
            p \in pre, a \in StarParams}
        \cup {[text |-> p \o b.text, star |-> None, plain |-> Some(b)] :
            p \in pre, b \in PlainParams}
        \cup {[text |-> <<>>, star |-> None, plain |-> None]}

NoHeader == [text |-> <<>>, star |-> None, plain |-> None]

NotParsed == [done |-> FALSE, filename |-> None, ext |-> None]

\* parse_content_disposition(header.text) is called
Parse ==
    /\ ~parsed.done
    /\ parsed' = [done |-> TRUE,
                  filename |-> parse_content_disposition(header.text).filename,
                  ext |-> parse_content_disposition(header.text).ext]
    /\ UNCHANGED <<fs, s3, ents, last, header>>

----------------------------------------------------------------------------
(* Shared bounds and names                                                  *)

\* a file or a buffer grows only while it holds fewer than MaxLen bytes
MaxLen == 2

PathA == <<"/", "w", "/", "a", ".", "txt">>

PathB == <<"/", "w", "/", "b", ".", "png">>

AbsPaths == {PathA, PathB}

\* the paths a caller passes: absolute, or relative to the working directory
PathArgs == AbsPaths \cup {<<"a", ".", "txt">>}

\* the destinations a caller moves to: absolute, or relative to the working
\* directory
MoveArgs == {PathB, <<"a", ".", "txt">>}

Slots == {1, 2, 3}

\* the slots of the entities the disk and pair developments operate on
Pair == {1, 2}

Bucket == <<"bucket">>

KeyC == <<"docs", "/", "c", ".", "pdf">>

\* object keys: with and without "/" separators, and one that repeats the
\* scheme
Keys == {KeyC, <<"k">>, <<"d", "/", "s3://", "e", "/">>}

S3Keys == {<<Bucket, KeyC>>}

NoCall == Call("none", 0, 0, TRUE, <<>>, NoContent, 0, <<>>)

\* what is appended or prepended: bytes or text
Contents == {[kind |-> "bytes", v |-> <<"P">>], [kind |-> "str", v |-> <<"e-acute">>]}

EmptyStore == [k \in S3Keys |-> None]

----------------------------------------------------------------------------
(* The entity development: one entity is built by any factory from varied   *)
(* inputs, then operated on                                                 *)

Payloads == {<<>>, <<"h">>, <<"P", "h">>, <<"D">>, <<"Z">>}

DispositionR == <<"attachment", ";", " ", "filename", "=", QUOTE, "r", ".", "png", QUOTE>>

Hints ==
    {[NoHint EXCEPT !.name = n, !.mime_type = m, !.size = sz] :
        n \in {None, Some(<<"n", ".", "pdf">>)},
        m \in {None, Some("text/plain")},
        sz \in {None, Some(7)}}
    \cup {[NoHint EXCEPT !.extension = x] :
        x \in {Some(<<"pdf">>), Some(<<".", "pdf">>), Some(<<".", ".", "pdf">>)}}
    \cup {[NoHint EXCEPT !.response = Some([NoHeaders EXCEPT !.cl = Some(<<"5">>),
                                                             !.cd = Some(DispositionR)])],
          [NoHint EXCEPT !.path = Some(PathB), !.url = Some(S3Url(Bucket, KeyC)),
                         !.size = Some(7), !.last_modified = Some(1999),
                         !.created_at = Some(1998)]}

HeaderSets ==
    {[NoHeaders EXCEPT !.cd = cd, !.ct = ct, !.cl = cl] :
        cd \in {None, Some(DispositionR)},
        ct \in {None, Some(""), Some("application/octet-stream")},
        cl \in {None, Some(<<"9">>), Some(<<" ", "1", "2">>), Some(<<"x">>)}}
    \cup {[NoHeaders EXCEPT !.etag = Some(<<QUOTE, "tag", QUOTE>>), !.lm = Some("garbage")],
          [NoHeaders EXCEPT !.cl = Some(<<"-", "5">>)],
          [NoHeaders EXCEPT !.cd = Some(<<"inline">>)],
          [NoHeaders EXCEPT !.cmd5 = Some(<<"md5">>),
                            !.lm = Some("Wed, 21 Oct 2015 07:28:00 GMT")]}

Responses ==
    {[status |-> 200, content |-> c, headers |-> h] : c \in {<<"h">>, <<"P", "h">>}, h \in HeaderSets}
    \cup {[status |-> 404, content |-> <<>>, headers |-> NoHeaders]}

Urls == {<<"https://", "host", "/", "dir", "/", "r", ".", "pdf">>, <<"https://", "host", "/">>}

Streams ==
    {[kind |-> "aiter", chunks |-> <<<<"h">>, <<>>, <<"P">>>>],
     [kind |-> "aiter", chunks |-> <<>>],
     [kind |-> "readable", chunks |-> <<<<"P", "h">>>>],
     [kind |-> "readable", chunks |-> <<<<"h">>>>],
     [kind |-> "other", chunks |-> <<>>]}

\* what get_object may answer: a body with attributes, no body, or an error
S3Responses ==
    {Some([Body |-> Some(b), attrs |-> [NoAttrs EXCEPT !.ContentLength = cl, !.ContentType = ct]]) :
        b \in {<<"h">>, <<"D", "h">>},
        cl \in {None, Some([kind |-> "int", n |-> 1, s |-> <<>>]),
                Some([kind |-> "str", n |-> 0, s |-> <<"9", "9", "9">>]),
                Some([kind |-> "str", n |-> 0, s |-> <<"x">>])},
        ct \in {None, Some("text/plain")}}
    \cup {Some([Body |-> Some(<<"h">>),
                attrs |-> [NoAttrs EXCEPT !.ContentDisposition = Some(DispositionR),
                                          !.ETag = Some(<<QUOTE, "tag", QUOTE>>),
                                          !.LastModified = Some([kind |-> "datetime", t |-> 2022, s |-> ""])]]),
          Some([Body |-> None, attrs |-> NoAttrs]),
          None}

MetadataArgs == {[extension |-> Some(<<".", "pdf">>), bogus |-> None],
                 [size |-> Some(7), name |-> None]}

Init ==
    /\ fs \in {[p \in AbsPaths |-> IF p = PathA THEN Some(c) ELSE None] : c \in {<<"h">>, <<"P", "h">>}}
    /\ s3 = EmptyStore
    /\ ents = [e \in Slots |-> NoEnt]
    /\ last = NoCall
    /\ header = NoHeader
    /\ parsed = NotParsed

Next ==
    \/ ents[1] = NoEnt /\ \E data \in Payloads, hint \in Hints :
           CallFromBytes(1, data, hint)
    \/ ents[1] = NoEnt /\ \E p \in PathArgs, hint \in Hints :
           CallFromFile(1, p, hint)
    \/ ents[1] = NoEnt /\ \E p \in PathArgs, hint \in Hints :
           CallFromFileRaced(1, p, hint)
    \/ ents[1] = NoEnt /\ \E u \in Urls, r \in Responses, hint \in Hints :
           CallFromUrl(1, u, r, hint)
    \/ ents[1] = NoEnt /\ \E st \in Streams, hint \in Hints :
           CallFromStream(1, st, hint)
    \/ ents[1] = NoEnt /\ \E r \in S3Responses, key \in Keys, hint \in Hints :
           CallFromS3(1, r, Bucket, key, hint)
    \/ Read(1)
    \/ \E kwargs \in MetadataArgs : SetMetadata(1, kwargs)
    \/ Save(1, PathB, 2)
    \/ \E c \in Contents :
           /\ ents[1] # NoEnt
           /\ IsLocalFile(ents[1]) =>
                Len(Existing(fs, abspath(ents[1].metadata.path.v))) < MaxLen
           /\ AppendContent(1, c)
    \/ \E c \in Contents :
           /\ ents[1] # NoEnt
           /\ Len(read(ents[1])) < MaxLen
           /\ PrependContent(1, c)
    \/ \E n \in 0..MaxLen : Truncate(1, n)
    \/ GetSignedUrl(1)

Spec == Init /\ [][Next]_vars

----------------------------------------------------------------------------
(* The inputs of the developments that build one entity per source          *)

\* a file name that holds a parameter separator
NameSemi == <<"a", ";", "b", ".", "txt">>

OpsHints ==
    {NoHint,
     [NoHint EXCEPT !.name = Some(<<"n", ".", "pdf">>), !.mime_type = Some("text/plain"),
                    !.path = Some(PathA)],
     [NoHint EXCEPT !.name = Some(NameSemi)]}

OpsUrl == <<"https://", "host", "/", "dir", "/", "r", ".", "pdf">>

\* what from_file is given besides the path: a hash and a url, which no
\* stage of a local file's resolution supplies
OpsFileHints == {[NoHint EXCEPT !.hash = Some(<<"abc">>), !.url = Some(OpsUrl)]}

OpsResponse ==
    [status |-> 200, content |-> <<"h">>,
     headers |-> [NoHeaders EXCEPT !.cd = Some(DispositionR), !.cl = Some(<<"9">>)]]

OpsStream == [kind |-> "aiter", chunks |-> <<<<"h">>, <<"P">>>>]

\* the object the store holds from the start
StoredObject ==
    [Body |-> <<"D">>, ContentDisposition |-> None, ContentType |-> Some("application/pdf")]

OpsMetadataArgs == {[name |-> Some(NameSemi), size |-> Some(7)]}

----------------------------------------------------------------------------
(* The disk development: two entities and another process share the disk    *)

InitDisk ==
    /\ fs = [p \in AbsPaths |-> IF p = PathA THEN Some(<<"h">>) ELSE None]
    /\ s3 = EmptyStore
    /\ ents = [e \in Slots |-> NoEnt]
    /\ last = NoCall
    /\ header = NoHeader
    /\ parsed = NotParsed

NextDisk ==
    \/ ents[1] = NoEnt /\ CallFromBytes(1, <<"h">>, NoHint)
    \/ ents[1] = NoEnt /\ CallFromUrl(1, OpsUrl, OpsResponse, NoHint)
    \/ ents[1] = NoEnt /\ CallFromStream(1, OpsStream, NoHint)
    \/ ents[1] = NoEnt /\ CallFromS3(1, Some([Body |-> Some(<<"D">>), attrs |-> NoAttrs]),
                                      Bucket, KeyC, NoHint)
    \/ \E e \in Pair, p \in AbsPaths : ents[e] = NoEnt /\ CallFromFile(e, p, NoHint)
    \/ \E p \in MoveArgs : Move(1, p, 2)
    \/ Delete(1)
    \/ \E e \in Pair, c \in Contents :
           /\ ents[e] # NoEnt
           /\ IsLocalFile(ents[e]) =>
                Len(Existing(fs, abspath(ents[e].metadata.path.v))) < MaxLen
           /\ AppendContent(e, c)
    \/ \E e \in Pair :
           /\ ents[e] # NoEnt
           /\ Len(read(ents[e])) < MaxLen
           /\ PrependContent(e, [kind |-> "bytes", v |-> <<"P">>])
    \/ Truncate(1, 1)
    \/ ExternalWrite(PathA, <<"P">>)
    \/ ExternalRemove(PathA)

SpecDisk == InitDisk /\ [][NextDisk]_vars

----------------------------------------------------------------------------
(* The operations development: one entity of any source, every operation    *)
(* called on it; slot 2 keeps the one entity an operation returns to the    *)
(* caller                                                                   *)

InitOps ==
    /\ fs = [p \in AbsPaths |-> IF p = PathA THEN Some(<<"h">>) ELSE None]
    /\ s3 = [k \in S3Keys |-> Some(StoredObject)]
    /\ ents = [e \in Slots |-> NoEnt]
    /\ last = NoCall
    /\ header = NoHeader
    /\ parsed = NotParsed

NextOps ==
    \/ ents[1] = NoEnt /\ \E hint \in OpsHints : CallFromBytes(1, <<"h">>, hint)
    \/ ents[1] = NoEnt /\ \E hint \in OpsFileHints : CallFromFile(1, PathA, hint)
    \/ ents[1] = NoEnt /\ CallFromUrl(1, OpsUrl, OpsResponse, NoHint)
    \/ ents[1] = NoEnt /\ CallFromStream(1, OpsStream, NoHint)
    \/ ents[1] = NoEnt /\ CallFromS3(1, GetObject(s3, Bucket, KeyC), Bucket, KeyC, NoHint)
    \/ Read(1)
    \/ \E kwargs \in OpsMetadataArgs : SetMetadata(1, kwargs)
    \/ ents[2] = NoEnt /\ \E p \in MoveArgs : Save(1, p, 2)
    \/ ents[2] = NoEnt /\ Move(1, PathB, 2)
    \/ Delete(1)
    \/ /\ ents[1] # NoEnt
       /\ IsLocalFile(ents[1]) =>
            Len(Existing(fs, abspath(ents[1].metadata.path.v))) < MaxLen
       /\ AppendContent(1, [kind |-> "bytes", v |-> <<"P">>])
    \/ AppendContentRaced(1, [kind |-> "bytes", v |-> <<"P">>])
    \/ /\ ents[1] # NoEnt
       /\ Len(read(ents[1])) < MaxLen
       /\ PrependContent(1, [kind |-> "bytes", v |-> <<"P">>])
    \/ Truncate(1, 1)
    \/ GetSignedUrl(1)
    \/ \E accepted \in BOOLEAN : UploadToS3(1, Bucket, KeyC, accepted)
    \/ ents[2] = NoEnt /\ \E accepted \in BOOLEAN : SaveToS3(1, Bucket, KeyC, 2, accepted)
    \/ ents[2] = NoEnt /\ \E accepted \in BOOLEAN : MoveToS3(1, Bucket, KeyC, 2, accepted)
    \/ ents[2] = NoEnt /\ DownloadFromS3(1, Bucket, KeyC, PathB, 2)

SpecOps == InitOps /\ [][NextOps]_vars

----------------------------------------------------------------------------
(* The metadata development: one entity of any source, its metadata set     *)
(* through varied keywords                                                  *)

\* keyword sets for set_metadata: fields, a key no object has, and two keys
\* every object has (a value that is not a class, an empty dict)
MetaArgs ==
    MetadataArgs
    \cup {[name |-> Some(NameSemi), mime_type |-> Some("text/plain"), url |-> None],
          [bogus |-> Some(7)],
          [k \in {"__class__"} |-> "text"],
          [k \in {"__dict__"} |-> <<>>]}

InitMeta == InitOps

NextMeta ==
    \/ ents[1] = NoEnt /\ \E hint \in OpsHints : CallFromBytes(1, <<"h">>, hint)
    \/ ents[1] = NoEnt /\ CallFromFile(1, PathA, NoHint)
    \/ ents[1] = NoEnt /\ CallFromUrl(1, OpsUrl, OpsResponse, NoHint)
    \/ ents[1] = NoEnt /\ CallFromStream(1, OpsStream, NoHint)
    \/ ents[1] = NoEnt /\ CallFromS3(1, GetObject(s3, Bucket, KeyC), Bucket, KeyC, NoHint)
    \/ \E kwargs \in MetaArgs : SetMetadata(1, kwargs)

SpecMeta == InitMeta /\ [][NextMeta]_vars

----------------------------------------------------------------------------
(* The pair development: two entities built from the same path, every       *)
(* operation called on either; slot 3 keeps the entity a move returns       *)

InitPair == InitDisk

NextPair ==
    \/ \E e \in Pair : ents[e] = NoEnt /\ CallFromFile(e, PathA, NoHint)
    \/ \E e \in Pair, kwargs \in OpsMetadataArgs : SetMetadata(e, kwargs)
    \/ \E e \in Pair :
           /\ ents[e] # NoEnt
           /\ IsLocalFile(ents[e]) =>
                Len(Existing(fs, abspath(ents[e].metadata.path.v))) < MaxLen
           /\ AppendContent(e, [kind |-> "bytes", v |-> <<"P">>])
    \/ \E e \in Pair :
           /\ ents[e] # NoEnt
           /\ Len(read(ents[e])) < MaxLen
           /\ PrependContent(e, [kind |-> "bytes", v |-> <<"D">>])
    \/ \E e \in Pair : Truncate(e, 1)
    \/ \E e \in Pair : Delete(e)
    \/ \E e \in Pair : ents[3] = NoEnt /\ Move(e, PathB, 3)

SpecPair == InitPair /\ [][NextPair]_vars

----------------------------------------------------------------------------
(* The parser development                                                   *)

InitCD ==
    /\ fs = [p \in AbsPaths |-> None]
    /\ s3 = EmptyStore
    /\ ents = [e \in Slots |-> NoEnt]
    /\ last = NoCall
    /\ header \in Headers
    /\ parsed = NotParsed

NextCD == Parse

SpecCD == InitCD /\ [][NextCD]_vars

----------------------------------------------------------------------------
(* Properties                                                               *)

FactoryOps == {"from_bytes", "from_file", "from_url", "from_stream", "from_s3"}

GatedFileOps == {"append", "prepend", "truncate"}

\* the message of the error a source-gated operation raises on a wrong source
InvalidSourceError(op) ==
    CASE op = "append" -> "Cannot append to non-file source"
      [] op = "prepend" -> "Cannot prepend to non-file source"
      [] op = "truncate" -> "Cannot truncate non-file source"
      [] op = "get_signed_url" -> "Cannot generate signed URL for non-S3 file"
      [] OTHER -> ""

\* the bytes a caller expects content to contribute: a string as its UTF-8
\* encoding (U+00E9 is C3 A9), bytes as they are
ExpectedBytes(content) ==
    IF content.kind = "str" /\ content.v = <<"e-acute">> THEN <<"xC3", "xA9">>
    ELSE content.v

\* C1: for each of the five factories, any payload and any hint, read() right
\* after construction returns exactly the supplied payload, and a later read()
\* with no mutating operation in between returns the same bytes: a returning
\* factory leaves an entity whose read() is the payload, read() returns the
\* entity's bytes, and read, set_metadata, get_signed_url and a refused
\* append, prepend or truncate leave what read() returns unchanged.
C1_RoundTrip ==
    [][/\ (last'.op \in FactoryOps /\ last'.ok) => read(ents'[last'.r]) = last'.data
       /\ last'.op = "read" => last'.data = read(ents[last'.e])
       /\ (\/ last'.op \in {"read", "set_metadata", "get_signed_url"}
           \/ (last'.op \in GatedFileOps /\ ~last'.ok))
          => read(ents'[last'.e]) = read(ents[last'.e])]_vars

\* a stream delivered in several chunks was built and read back whole
C1_Witness ==
    /\ last.op = "read"
    /\ ents[1].source = "Stream"
    /\ last.data = <<"h", "P">>

\* C2: whenever the payload is not empty and the sniffer returns a MIME type,
\* the resolved mime_type is the sniffer's value, for every factory, whatever
\* the hint, the transport content-type or the extension of the path or name.
C2_SnifferWins ==
    (last.op \in FactoryOps /\ last.ok /\ last.data # <<>>
        /\ TruthyStr(detect_from_bytes(last.data).mime))
    => ents[last.r].metadata.mime_type = detect_from_bytes(last.data).mime

\* a PNG payload fetched with content-type application/octet-stream under a
\* hint that says text/plain resolved to image/png
C2_Witness ==
    /\ last.op = "from_url" /\ last.ok
    /\ last.data = <<"P", "h">>
    /\ last.input.headers.v.ct = Some("application/octet-stream")
    /\ last.input.hint.mime_type = Some("text/plain")
    /\ ents[1].metadata.mime_type = Some("image/png")

\* C3: in every reachable state of an entity, after construction by any
\* factory with any hint extension and after any operations (set_metadata and
\* refresh included), metadata.extension, when present, does not start with
\* the "." separator.
C3_ExtensionNormalised ==
    \A e \in Slots :
        (ents[e] # NoEnt /\ Truthy(ents[e].metadata.extension))
        => ents[e].metadata.extension.v[1] # "."

\* C4: append, prepend and truncate on an entity that is not File-sourced, and
\* get_signed_url on an entity that is not S3-sourced, raise the invalid-source
\* error and change neither the entity nor the disk nor the object store.
C4_GatedOpsRefuse ==
    [][(\/ (last'.op \in GatedFileOps /\ ents[last'.e].source # "File")
        \/ (last'.op = "get_signed_url" /\ ents[last'.e].source # "S3"))
       => /\ ~last'.ok
          /\ last'.error = InvalidSourceError(last'.op)
          /\ UNCHANGED <<fs, s3, ents>>]_vars

\* append was refused on a Bytes entity although its metadata carries a path
C4_Witness ==
    /\ last.op = "append" /\ ~last.ok
    /\ last.error = "Cannot append to non-file source"
    /\ ents[1].source = "Bytes"
    /\ ents[1].metadata.path = Some(PathB)

\* C5: after move(destination) returns on a File-sourced entity the original
\* backing path is no longer on disk and the returned entity is File-sourced
\* with path the absolute destination; on an entity of another source move
\* removes no file.
C5_MoveRemovesOriginal ==
    [][(last'.op = "move" /\ last'.ok)
       => /\ ents[last'.e].source = "File"
             => /\ IsNone(FileAt(fs', ents[last'.e].metadata.path.v))
                /\ ents'[last'.r].source = "File"
                /\ ents'[last'.r].metadata.path
                       = Some(IF last'.text[1] = "/" THEN last'.text
                              ELSE <<"/", "w", "/">> \o last'.text)
          /\ ents[last'.e].source # "File"
             => \A p \in AbsPaths : IsSome(fs[p]) => IsSome(fs'[p])]_vars

\* a file entity at /w/a.txt was moved to /w/b.png
C5_Witness ==
    /\ last.op = "move" /\ last.ok
    /\ ents[1].source = "File" /\ ents[1].metadata.path = Some(PathA)
    /\ last.text = PathB
    /\ IsNone(fs[PathA]) /\ IsSome(fs[PathB])
    /\ ents[2].source = "File" /\ ents[2].metadata.path = Some(PathB)

\* C6: for every header holding both an extended parameter
\* filename*=<charset>''<value> (any charset label, before or after the plain
\* one) and a plain filename= parameter, parse_content_disposition returns the
\* percent-decoded extended value as the filename.  Stated for extended
\* values that hold a name.
C6_ExtendedWins ==
    (/\ parsed.done
     /\ IsSome(header.star) /\ IsSome(header.plain)
     /\ header.star.v.value \in {<<"a", "%20", "b", ".", "txt">>, <<"x", ".", "pdf">>})
    => parsed.filename =
         Some(IF header.star.v.value = <<"x", ".", "pdf">> THEN <<"x", ".", "pdf">>
              ELSE <<"a", " ", "b", ".", "txt">>)

\* C7: for from_url and from_s3, a transport content-length that parses as an
\* integer is the resolved size, whatever size the hint gave and however long
\* the body is; no later stage of the cascade changes it.
C7_ContentLengthIsSize ==
    /\ (/\ last.op = "from_url" /\ last.ok
        /\ IsSome(last.input.headers.v.cl)
        /\ IsSome(ParseInt(last.input.headers.v.cl.v)))
       => ents[last.r].metadata.size = ParseInt(last.input.headers.v.cl.v)
    /\ (/\ last.op = "from_s3" /\ last.ok
        /\ IsSome(last.input.attrs.v.ContentLength)
        /\ IsSome(IntOfAttr(last.input.attrs.v.ContentLength.v)))
       => ents[last.r].metadata.size = IntOfAttr(last.input.attrs.v.ContentLength.v)

\* a one-byte body fetched with content-length 9 under a hint of size 7
C7_Witness ==
    /\ last.op = "from_url" /\ last.ok
    /\ last.data = <<"h">>
    /\ last.input.headers.v.cl = Some(<<"9">>)
    /\ last.input.hint.size = Some(7)
    /\ ents[1].metadata.size = Some(9)

\* C8: after append(content) on a File-sourced entity the backing file holds
\* the bytes it held right before the call followed by content (its UTF-8
\* encoding when a string), and the entity's read() and size are those of the
\* new file content.
C8_AppendExtendsFile ==
    [][(last'.op = "append" /\ last'.ok)
       => LET p == ents[last'.e].metadata.path.v
              expected == Existing(fs, p) \o ExpectedBytes(last'.content)
          IN  /\ FileAt(fs', p) = Some(expected)
              /\ read(ents'[last'.e]) = expected
              /\ ents'[last'.e].metadata.size = Some(Len(expected))]_vars

\* a string was appended to a file whose one byte was written by another
\* process after the entity had buffered different content
C8_Witness ==
    /\ last.op = "append" /\ last.ok
    /\ last.content = [kind |-> "str", v |-> <<"e-acute">>]
    /\ last.data = <<"P">>
    /\ fs[PathA] = Some(<<"P", "xC3", "xA9">>)
    /\ read(ents[last.e]) = <<"P", "xC3", "xA9">>

\* C9: after prepend(content) on a File-sourced entity the backing file holds
\* content (its UTF-8 encoding when a string) followed by the bytes the file
\* held right before the call, whoever wrote them.
C9_PrependKeepsFile ==
    [][(last'.op = "prepend" /\ last'.ok)
       => LET p == ents[last'.e].metadata.path.v
          IN  FileAt(fs', p) = Some(ExpectedBytes(last'.content) \o Existing(fs, p))]_vars

\* C10: truncate(n) on a File-sourced entity whose backing file holds more
\* than n bytes leaves the file holding exactly its first n bytes; the entity
\* then reports size n and read() returns those n bytes.
C10_TruncateCuts ==
    [][(/\ last'.op = "truncate" /\ last'.ok
        /\ Len(Existing(fs, ents[last'.e].metadata.path.v)) > last'.n)
       => LET p == ents[last'.e].metadata.path.v
              kept == SubSeq(Existing(fs, p), 1, last'.n)
          IN  /\ FileAt(fs', p) = Some(kept)
              /\ ents'[last'.e].metadata.size = Some(last'.n)
              /\ read(ents'[last'.e]) = kept]_vars

\* a file of two bytes was cut to its first byte
C10_Witness ==
    /\ last.op = "truncate" /\ last.ok /\ last.n = 1
    /\ Len(last.data) = 2
    /\ fs[last.text] = Some(<<last.data[1]>>)
    /\ ents[last.e].metadata.size = Some(1)
    /\ read(ents[last.e]) = <<last.data[1]>>

\* C15: for from_bytes and from_stream the resolved size is the number of
\* payload bytes, for every payload (the empty one included) and every hint,
\* whatever size or other fields the hint carries.
C15_SizeIsPayloadLength ==
    (last.op \in {"from_bytes", "from_stream"} /\ last.ok)
    => ents[last.r].metadata.size = Some(Len(last.data))

\* C16: from_file(path, hint) yields name the basename of the absolute path and
\* path the absolute path, even when the hint supplies a different name or
\* path.
C16_FromFileNameAndPath ==
    (last.op = "from_file" /\ last.ok)
    => /\ ents[last.r].metadata.name = Some(basename(abspath(last.input.path)))
       /\ ents[last.r].metadata.path = Some(abspath(last.input.path))

\* C17: in the Metadata record a factory produces, size, when present, is not
\* negative, for every hint and for every transport content-length that parses
\* as an integer.
C17_SizeNonNegative ==
    (last.op \in FactoryOps /\ last.ok /\ IsSome(ents[last.r].metadata.size))
    => ents[last.r].metadata.size.v >= 0

\* the record as it stands when the S3 stage or the filesystem stage begins:
\* the seed, after the headers of a response the hint carries
BeforeS3OrStat(hint) == HttpStage(Seed(hint), hint.response)

\* C18: metadata resolution never fails construction: once the transport has
\* answered, a content-length that does not parse leaves size at its prior
\* value, a last-modified date that does not parse leaves last_modified at its
\* prior value, and a failing stat leaves size, last_modified and created_at
\* at their prior values; in each case the factory returns an entity.
C18_ResolutionAbsorbsFailures ==
    /\ (last.op = "from_url" /\ last.error # "HTTPStatusError")
       => /\ last.ok
          /\ (IsSome(last.input.headers.v.cl) /\ IsNone(ParseInt(last.input.headers.v.cl.v)))
             => ents[last.r].metadata.size = last.input.hint.size
          /\ (TruthyStr(last.input.headers.v.lm)
              /\ IsNone(parse_http_date(last.input.headers.v.lm.v)))
             => ents[last.r].metadata.last_modified = last.input.hint.last_modified
    /\ (last.op = "from_s3" /\ last.error \notin {"ClientError", "RuntimeError"})
       => /\ last.ok
          /\ (IsSome(last.input.attrs.v.ContentLength)
              /\ IsNone(IntOfAttr(last.input.attrs.v.ContentLength.v)))
             => ents[last.r].metadata.size = BeforeS3OrStat(last.input.hint).size
    /\ (last.op = "from_file" /\ last.text = <<"stat failed">>)
       => /\ last.ok
          /\ ents[last.r].metadata.size = BeforeS3OrStat(last.input.hint).size
          /\ ents[last.r].metadata.last_modified =
                 BeforeS3OrStat(last.input.hint).last_modified
          /\ ents[last.r].metadata.created_at = last.input.hint.created_at

\* from_file returned an entity although the stat failed on a vanished file,
\* and the size and the times are the ones the hint gave
C18_Witness ==
    /\ last.op = "from_file" /\ last.ok /\ last.text = <<"stat failed">>
    /\ IsNone(FileAt(fs, abspath(last.input.path)))
    /\ last.input.hint.size = Some(7)
    /\ ents[last.r].metadata.size = Some(7)
    /\ ents[last.r].metadata.last_modified = Some(1999)
    /\ ents[last.r].metadata.created_at = Some(1998)

\* C20: an entity constructed by from_s3(bucket, key) has metadata.url
\* s3://bucket/key, and parsing that url back, as get_signed_url and refresh
\* do, yields the original (bucket, key) pair, for keys that contain "/" too.
C20_S3UrlRoundTrip ==
    (last.op = "from_s3" /\ last.ok)
    => /\ ents[last.r].metadata.url =
              Some(<<"s3://">> \o last.input.bucket \o <<"/">> \o last.input.key)
       /\ parse_s3_url(ents[last.r].metadata.url.v) =
              Some([bucket |-> last.input.bucket, key |-> last.input.key])

\* from_s3 built an entity for a key with "/" separators
C20_Witness ==
    /\ last.op = "from_s3" /\ last.ok
    /\ last.input.key = <<"d", "/", "s3://", "e", "/">>
    /\ ents[last.r].source = "S3"
    /\ parse_s3_url(ents[last.r].metadata.url.v).v.key = last.input.key

\* C11: save(destination) writes the entity's full buffer to destination and
\* returns, as second element, a new File-sourced entity whose path is the
\* absolute destination, whose read() equals the original's read(), and whose
\* metadata is resolved from the written file (name its basename, size its
\* length, the times the disk's, no url and no hash) rather than copied.
C11_SaveWritesAndReturnsFresh ==
    [][(last'.op = "save" /\ last'.ok)
       => /\ fs'[abspath(last'.text)] = Some(read(ents[last'.e]))
          /\ ents'[last'.r].source = "File"
          /\ ents'[last'.r].metadata.path = Some(abspath(last'.text))
          /\ read(ents'[last'.r]) = read(ents[last'.e])
          /\ ents'[last'.r].metadata.name = Some(basename(abspath(last'.text)))
          /\ ents'[last'.r].metadata.size = Some(Len(read(ents[last'.e])))
          /\ ents'[last'.r].metadata.last_modified =
                 Some(Stat(fs', abspath(last'.text)).st_mtime)
          /\ ents'[last'.r].metadata.url = None
          /\ ents'[last'.r].metadata.hash = None]_vars

\* a downloaded entity was saved under a relative path: the new entity is a
\* local file named after the destination, the original keeps its own name,
\* size and url
C11_Witness ==
    /\ last.op = "save" /\ last.ok /\ last.e = 1 /\ last.r = 2
    /\ last.text = <<"a", ".", "txt">>
    /\ ents[1].source = "Url"
    /\ ents[1].metadata.name = Some(<<"r", ".", "png">>)
    /\ ents[1].metadata.size = Some(9)
    /\ ents[2].source = "File"
    /\ ents[2].metadata.name = Some(<<"a", ".", "txt">>)
    /\ ents[2].metadata.size = Some(1)
    /\ ents[2].metadata.path = Some(PathA)
    /\ fs[PathA] = Some(read(ents[1]))

\* the operations that hand the buffer elsewhere and leave the caller's entity
CopyingOps == {"save", "upload_to_s3", "save_to_s3"}

\* C12: save, upload_to_s3 and save_to_s3 do not mutate the calling entity:
\* its source tag, every metadata field and its payload are the same after
\* the call as before, whether the call returned or raised; the first element
\* save and save_to_s3 return is that entity, the new entity is another one.
C12_CallerUnchanged ==
    [][(last'.op \in CopyingOps)
       => /\ ents'[last'.e] = ents[last'.e]
          /\ ents'[last'.e].source = ents[last'.e].source
          /\ ents'[last'.e].metadata = ents[last'.e].metadata
          /\ read(ents'[last'.e]) = read(ents[last'.e])
          /\ last'.r # last'.e]_vars

\* save_to_s3 stored the buffer of a Bytes entity and returned an S3 entity;
\* the caller's entity is still the Bytes entity with its name and no url
C12_Witness ==
    /\ last.op = "save_to_s3" /\ last.ok /\ last.e = 1 /\ last.r = 2
    /\ ents[1].source = "Bytes"
    /\ ents[1].metadata.name = Some(<<"n", ".", "pdf">>)
    /\ ents[1].metadata.url = None
    /\ ents[2].source = "S3"
    /\ ents[2].metadata.url = Some(S3Url(Bucket, KeyC))
    /\ s3[<<Bucket, KeyC>>].v.Body = read(ents[1])

\* C13: delete() on a File-sourced entity removes its backing path from disk;
\* delete() on a Bytes, Url, Stream or S3 entity changes nothing on disk or in
\* object storage and never raises.
C13_DeleteOnlyLocalFile ==
    [][(last'.op = "delete")
       => IF ents[last'.e].source = "File"
          THEN /\ Truthy(ents[last'.e].metadata.path)
               /\ FileAt(fs', abspath(ents[last'.e].metadata.path.v)) = None
               /\ last'.ok => fs' = RemoveFile(fs, abspath(ents[last'.e].metadata.path.v))
               /\ s3' = s3
          ELSE /\ last'.ok
               /\ fs' = fs
               /\ s3' = s3]_vars

\* delete removed the file behind a File-sourced entity
C13_Witness ==
    /\ last.op = "delete" /\ last.ok
    /\ ents[1].source = "File"
    /\ ents[1].metadata.path = Some(PathA)
    /\ fs[PathA] = None

\* C14: the source tag of an entity is fixed at construction: no operation
\* called on it (read, set_metadata, save, move, delete, append, prepend,
\* truncate and the refresh they trigger, the S3 transfers) changes it; only
\* the slot that receives a returned entity holds another one afterwards.
C14_SourceFixed ==
    [][\A e \in Slots :
          (ents[e] # NoEnt /\ e # last'.r)
          => /\ ents'[e] # NoEnt
             /\ ents'[e].source = ents[e].source]_vars

\* a local file was edited in place and then moved to the object store: the
\* file is gone, the returned entity is S3-sourced, and the entity the calls
\* were made on is still File-sourced
C14_Witness ==
    /\ last.op = "move_to_s3" /\ last.ok /\ last.e = 1 /\ last.r = 2
    /\ ents[1].source = "File"
    /\ read(ents[1]) = <<"h", "P">>
    /\ fs[PathA] = None
    /\ ents[2].source = "S3"

\* C19: for an entity whose name is known, save_to_s3(bucket, key) returns a
\* new S3-sourced entity whose name is the original entity's name, carried by
\* the uploaded Content-Disposition attribute and parsed back on download,
\* ahead of the basename of key.
C19_NameSurvivesS3 ==
    [][(last'.op = "save_to_s3" /\ last'.ok /\ Truthy(ents[last'.e].metadata.name))
       => /\ ents'[last'.r].source = "S3"
          /\ ents'[last'.r].metadata.name = ents[last'.e].metadata.name]_vars

\* the nine fields of the Metadata record
MetadataFields ==
    {"name", "mime_type", "size", "extension", "url", "path", "hash",
     "last_modified", "created_at"}

\* C21: set_metadata(fields) changes exactly the named Metadata fields to the
\* given values; keys that are not Metadata field names are ignored without
\* error; every unnamed metadata field, the source tag and the payload are
\* unchanged.
C21_SetMetadataExact ==
    [][(last'.op = "set_metadata")
       => /\ last'.ok
          /\ \A k \in MetadataFields :
                ents'[last'.e].metadata[k] =
                    IF k \in DOMAIN last'.input.kwargs THEN last'.input.kwargs[k]
                    ELSE ents[last'.e].metadata[k]
          /\ ents'[last'.e].source = ents[last'.e].source
          /\ read(ents'[last'.e]) = read(ents[last'.e])]_vars

\* C22: in every reachable state exists(), is_readable() and is_writable() on a
\* File-sourced entity report what the disk now holds at its backing path (so
\* exists() is false once delete, move or another process removed it), and on
\* an entity of any other source exists() and is_readable() are true and
\* is_writable() is false.
C22_QueriesReportDisk ==
    \A e \in Slots :
        ents[e] # NoEnt
        => IF ents[e].source = "File"
           THEN /\ exists(fs, ents[e]) = IsSome(fs[ents[e].metadata.path.v])
                /\ is_readable(fs, ents[e]) = IsSome(fs[ents[e].metadata.path.v])
                /\ is_writable(fs, ents[e]) = IsSome(fs[ents[e].metadata.path.v])
           ELSE /\ exists(fs, ents[e])
                /\ is_readable(fs, ents[e])
                /\ ~is_writable(fs, ents[e])

\* another process removed the file two File-sourced entities were built
\* from: exists() is false on both, and so are the access queries
C22_Witness ==
    /\ last.op = "external_remove"
    /\ ents[1] # NoEnt /\ ents[1].source = "File" /\ ents[1].metadata.path = Some(PathA)
    /\ ents[2] # NoEnt /\ ents[2].source = "File" /\ ents[2].metadata.path = Some(PathA)
    /\ ~exists(fs, ents[1]) /\ ~exists(fs, ents[2])
    /\ ~is_readable(fs, ents[1]) /\ ~is_writable(fs, ents[1])

\* C23: refresh is all-or-nothing: a successful append, prepend or truncate
\* replaces the entity's whole state with that of a fresh from_file on the
\* same path with no hint, so values set through set_metadata or a
\* construction hint are discarded; and when the call fails, the
\* re-construction included, the entity's source, metadata and payload are
\* entirely the pre-call values.
C23_RefreshAllOrNothing ==
    [][(last'.op \in GatedFileOps /\ IsLocalFile(ents[last'.e]))
       => IF last'.ok
          THEN ents'[last'.e] = from_file(fs', ents[last'.e].metadata.path.v, NoHint).file
          ELSE ents'[last'.e] = ents[last'.e]]_vars

\* the refresh after append failed on a vanished file: the entity still has
\* the name and the size set_metadata gave it and the hash its hint gave it
C23_Witness ==
    /\ last.op = "append" /\ ~last.ok /\ last.error = "FileNotFoundError"
    /\ fs[PathA] = None
    /\ ents[1].source = "File"
    /\ ents[1].metadata.name = Some(NameSemi)
    /\ ents[1].metadata.size = Some(7)
    /\ ents[1].metadata.hash = Some(<<"abc">>)
    /\ read(ents[1]) = <<"h">>

\* C24: two entities constructed from the same backing path share no in-memory
\* state: a set_metadata, append, prepend, truncate, delete or move on one
\* entity, in any interleaving, never changes the other entity's source,
\* metadata or cached payload (nor does any other call made on one entity or
\* by another process).
C24_EntitiesIndependent ==
    [][\A e \in Slots :
          (ents[e] # NoEnt /\ e # last'.e /\ e # last'.r)
          => /\ ents'[e] = ents[e]
             /\ ents'[e].source = ents[e].source
             /\ ents'[e].metadata = ents[e].metadata
             /\ read(ents'[e]) = read(ents[e])]_vars

\* two entities were built from the same path; one was given a name and a
\* size through set_metadata, the other then appended to the file: the first
\* still has the name, the size and the payload it had
C24_Witness ==
    /\ last.op = "append" /\ last.ok /\ last.e = 1
    /\ ents[1].source = "File" /\ ents[1].metadata.path = Some(PathA)
    /\ ents[2] # NoEnt /\ ents[2].source = "File" /\ ents[2].metadata.path = Some(PathA)
    /\ ents[2].metadata.name = Some(NameSemi)
    /\ ents[2].metadata.size = Some(7)
    /\ read(ents[2]) = <<"h">>
    /\ read(ents[1]) = <<"h", "P">>
    /\ ents[1].metadata.name = Some(<<"a", ".", "txt">>)
    /\ ents[3] = NoEnt

\* the MIME type the precedence of the cascade gives a factory's result: sniff
\* is the sniffer's answer on the payload, bypath and byname the lookups on the
\* extension of the path and of the name, http and attrs the transport headers
\* and attributes (None without that transport), hinted the hint's mime_type
MimeByPrecedence(sniff, bypath, byname, http, attrs, hinted) ==
    IF TruthyStr(sniff) THEN sniff
    ELSE IF TruthyStr(bypath) THEN bypath
    ELSE IF IsSome(attrs) /\ TruthyStr(attrs.v.ContentType) THEN attrs.v.ContentType
    ELSE IF IsSome(attrs) /\ TruthyStr(byname) THEN byname
    ELSE IF IsSome(http) /\ TruthyStr(http.v.ct) THEN http.v.ct
    ELSE IF IsSome(http) /\ TruthyStr(byname) THEN byname
    ELSE IF TruthyStr(hinted) THEN hinted
    ELSE IF TruthyStr(byname) THEN byname
    ELSE hinted

\* C25: the resolved mime_type of every factory's result follows the fixed
\* precedence: the sniffer's result on a non-empty payload; else the MIME looked
\* up from the path's extension (File source only); else the transport
\* content-type or, when the transport gave none, the MIME looked up from the
\* name's extension; else the hint's mime_type; else the MIME looked up from
\* the name.
C25_MimePrecedence ==
    (last.op \in FactoryOps /\ last.ok)
    => LET f == ents[last.r]
           m == f.metadata
       IN  m.mime_type
             = MimeByPrecedence(
                   IF last.data # <<>> THEN detect_from_bytes(last.data).mime ELSE None,
                   IF f.source = "File" /\ Truthy(m.path)
                   THEN detect_from_extension(m.path.v) ELSE None,
                   IF Truthy(m.name) THEN detect_from_extension(m.name.v) ELSE None,
                   IF last.op = "from_url" THEN last.input.headers
                   ELSE last.input.hint.response,
                   last.input.attrs,
                   last.input.hint.mime_type)

\* a download without content-type and without a signature, named n.pdf by a
\* hint that says text/plain, resolved to application/pdf by the name
C25_Witness ==
    /\ last.op = "from_url" /\ last.ok
    /\ last.data = <<"h">>
    /\ last.input.headers.v.ct = None
    /\ last.input.headers.v.cd = None
    /\ last.input.hint.name = Some(<<"n", ".", "pdf">>)
    /\ last.input.hint.mime_type = Some("text/plain")
    /\ ents[1].metadata.mime_type = Some("application/pdf")

\* C26: in the transport stage of from_url a Content-Disposition header that
\* yields a filename overwrites any hint name; when none is obtained and the
\* hint gave no name, the name is the last path segment of the URL; otherwise
\* the hint's name is kept.
C26_FromUrlName ==
    (last.op = "from_url" /\ last.ok)
    => LET cd == last.input.headers.v.cd
           hint == last.input.hint
           name == ents[last.r].metadata.name
       IN  IF Truthy(cd) /\ Truthy(parse_content_disposition(cd.v).filename)
           THEN name = parse_content_disposition(cd.v).filename
           ELSE IF IsNone(hint.name)
           THEN name = filename_from_url(hint.url)
           ELSE name = hint.name

\* a download answered with filename="r.png" under a hint that names it n.pdf
\* is named r.png
C26_Witness ==
    /\ last.op = "from_url" /\ last.ok
    /\ last.input.headers.v.cd = Some(DispositionR)
    /\ last.input.hint.name = Some(<<"n", ".", "pdf">>)
    /\ ents[1].metadata.name = Some(<<"r", ".", "png">>)

\* C27: whenever move(destination) returns normally, destination is on disk
\* and holds the bytes read() returned before the call, also for a destination
\* that resolves to the entity's own backing path.
C27_MoveLeavesDestination ==
    [][(last'.op = "move" /\ last'.ok)
       => FileAt(fs', abspath(last'.text)) = Some(read(ents[last'.e]))]_vars

\* C28: right after from_file returns, metadata.size is the length of the
\* bytes read() returns, also when another process removes or rewrites the
\* backing file between the factory's read of the content and its os.stat.
C28_SizeMatchesContent ==
    (last.op = "from_file" /\ last.ok)
    => ents[last.r].metadata.size = Some(Len(read(ents[last.r])))

\* C29: every upload_to_s3, save_to_s3 and move_to_s3 call hands put_object a
\* ContentLength that is the length of the Body it sends, for entities of
\* every source and after set_metadata.  A call that passes no ContentLength
\* at all is not counted against the statement.
C29_ContentLengthIsBodyLength ==
    (last.op \in {"upload_to_s3", "save_to_s3", "move_to_s3"}
        /\ IsSome(last.input.attrs.v.ContentLength))
    => last.input.attrs.v.ContentLength.v = Len(last.data)

\* C30: parse_content_disposition returns either (None, None) or a filename
\* that is not empty: a value of filename*= or filename= that is empty or only
\* whitespace or quotes never gives the empty filename.
C30_NoEmptyFilename ==
    parsed.done
    => \/ IsNone(parsed.filename) /\ IsNone(parsed.ext)
       \/ IsSome(parsed.filename) /\ parsed.filename.v # <<>>

====
